---- MODULE Spec2Model ----
(***************************************************************************)
(* OpenTracing instrumentation of net/http (package nethttp).              *)
(*                                                                         *)
(* Server side: MiddlewareFunc (server.go) wraps a handler, starts one     *)
(* server span per request that passes the span filter, hands the handler  *)
(* a facade over a metricsTracker (status and byte counters) and finishes  *)
(* the span in a deferred function.                                        *)
(* Client side: TraceRequest/Transport (client.go) keep a Tracer with a    *)
(* root span and one hop span per RoundTrip.                               *)
(*                                                                         *)
(* The tracer, the spans and the underlying http.ResponseWriter are        *)
(* collaborators: they are modelled by their documented contract.          *)
(***************************************************************************)
EXTENDS Integers, Sequences, FiniteSets, TLC

\* ------------------------------------------------------------------ bounds

\* Calls a handler makes on its response writer before it returns or panics.
MaxSteps == 3
\* Calls the handlers make in all on their response writers when a middleware
\* instance serves two requests at once.
MaxConcurrentSteps == 2
\* Longest body chunk handed to one Write / WriteString / ReadFrom call.
MaxLen == 2

\* --------------------------------------------------------------- constants

Nil == "nil"

StatusOK == 200
StatusInternalServerError == 500
\* Status codes a handler passes to WriteHeader.
Statuses == {StatusOK, 404, StatusInternalServerError}

\* Values a handler panics with (server_test.go:416 and net/http's abort value).
PanicValues == {"panic test", "abort"}

defaultComponentName == "net/http"
responseSizeKey == "http.response_size"

\* The five optional interfaces wrappedResponseWriter probes for.
Caps == {"Hijacker", "CloseNotifier", "Pusher", "Flusher", "ReaderFrom"}

\* The response writers of the standard library, by the optional interfaces
\* they implement: a bare writer, httptest.ResponseRecorder, the HTTP/1
\* response, the HTTP/2 response writer.
StdWriters ==
    { {},
      {"Flusher"},
      {"Hijacker", "CloseNotifier", "Flusher", "ReaderFrom"},
      {"CloseNotifier", "Pusher", "Flusher"} }

\* Request ids; a specification serves the ones its initial state activates.
Reqs == {1, 2}

TagKeys ==
    { "span.kind", "http.method", "http.url", "component", "http.uri", "hello",
      "custom", "http.status_code", responseSizeKey, "error",
      "net/http.reused", "net/http.was_idle", "peer.address" }

\* A tag that is not set; a set tag holds <<value>>.
Absent == << >>

VARIABLES
    opts,       \* the middleware instance's mwOptions, built once
    compName,   \* componentName captured by the closure (server.go:128-131)
    req,        \* req[r]: the inbound request
    under,      \* under[r]: optional interfaces of the original ResponseWriter
    sink,       \* sink[r]: what the original ResponseWriter committed
    pc,         \* pc[r]: position of request r inside fn
    mt,         \* mt[r]: the request's metricsTracker (status, size)
    sp,         \* sp[r]: index in spans of the server span, 0 when none
    hw,         \* hw[r]: the writer value handed to the handler
    hctx,       \* hctx[r]: span carried by the context of the request handed over
    calls,      \* calls[r]: invocations of the wrapped handler
    steps,      \* steps[r]: writer calls the handler has made
    headerCalls,\* headerCalls[r]: WriteHeader calls the handler has made
    accepted,   \* accepted[r]: bytes the sink accepted through Write/WriteString
    thrown,     \* thrown[r]: value the handler panicked with, Nil when none
    panicErr,   \* panicErr[r]: what recover() returned in the deferred function
    result,     \* result[r]: what the caller of fn sees: pending, returned, or a panic value
    traceCalls, \* traceCalls[r]: tracer/observer calls made for r (Extract, observer)
    spans,      \* the tracer's spans, in start order
    creq,       \* the outbound request: method, URL, the span given to TraceRequest
    attached,   \* whether the request's context carries a *Tracer (keyTracer)
    ht,         \* the Tracer: root, parent, sp (indices in spans, 0 for nil)
    cpc,        \* position of the client: new, send, rt, redirect, returned, failed, crashed
    hops,       \* one record per RoundTrip call, in call order
    bodies,     \* one record per response body handed out by RoundTrip
    redirects,  \* redirects followed so far
    userCalls   \* calls the caller made after Do returned: Close, Finish

srvVars ==
    << opts, compName, req, under, sink, pc, mt, sp, hw, hctx, calls, steps,
       headerCalls, accepted, thrown, panicErr, result, traceCalls >>

cliVars == << creq, attached, ht, cpc, hops, bodies, redirects, userCalls >>

vars == << srvVars, spans, cliVars >>

\* ------------------------------------------------------------ tracer, spans

NilCtx == [kind |-> "nil", id |-> 0]
\* The span context a client injected into the inbound headers.
RemoteCtx == [kind |-> "remote", id |-> 0]
\* Span.Context() of the i-th span of the tracer.
Context(i) == [kind |-> "span", id |-> i]

NoTags == [k \in TagKeys |-> Absent]

\* StartSpanOption values, applied in order to StartSpanOptions.
\* opentracing.ChildOf(ctx) has no effect when ctx is nil.
ChildOf(ctx) == [kind |-> "ChildOf", ctx |-> ctx, key |-> "", value |-> Absent]
TagOption(k, v) == [kind |-> "Tag", ctx |-> NilCtx, key |-> k, value |-> <<v>>]
\* ext.RPCServerOption(ctx): ChildOf(ctx) when ctx is not nil, and span.kind=server.
RPCServerOption(ctx) == [kind |-> "RPCServer", ctx |-> ctx, key |-> "", value |-> Absent]

RECURSIVE ApplyRefs(_)
ApplyRefs(options) ==
    IF options = << >> THEN << >>
    ELSE LET o == Head(options)
             rest == ApplyRefs(Tail(options))
         IN  IF o.kind \in {"ChildOf", "RPCServer"} /\ o.ctx # NilCtx
             THEN <<o.ctx>> \o rest
             ELSE rest

RECURSIVE ApplyTags(_, _)
ApplyTags(options, tags) ==
    IF options = << >> THEN tags
    ELSE LET o == Head(options)
             t == IF o.kind = "Tag" THEN [tags EXCEPT ![o.key] = o.value]
                  ELSE IF o.kind = "RPCServer"
                       THEN [tags EXCEPT !["span.kind"] = <<"server">>]
                       ELSE tags
         IN  ApplyTags(Tail(options), t)

\* Tracer.StartSpan(name, options...): the new span, appended to the tracer's spans.
NewSpan(owner, name, options) ==
    [ owner    |-> owner,
      op       |-> name,
      refs     |-> ApplyRefs(options),
      tags     |-> ApplyTags(options, NoTags),
      logs     |-> << >>,
      finished |-> 0 ]

StartSpan(ss, owner, name, options) == Append(ss, NewSpan(owner, name, options))

\* Span.SetTag(key, value) on span i.
SetTag(ss, i, k, v) == [ss EXCEPT ![i].tags[k] = <<v>>]

\* Span.LogEvent(name) on span i.
LogEvent(ss, i, e) == [ss EXCEPT ![i].logs = Append(@, e)]

\* Span.Finish() on span i.
Finish(ss, i) == [ss EXCEPT ![i].finished = @ + 1]

\* Tracer.Extract(HTTPHeaders, carrier): (ctx, nil) for a carrier that holds a
\* span context, (nil, err) when it holds none or a corrupted one.
Extract(carrier) ==
    CASE carrier = "valid"   -> [ctx |-> RemoteCtx, err |-> Nil]
      [] carrier = "corrupt" -> [ctx |-> NilCtx, err |-> "ErrSpanContextCorrupted"]
      [] OTHER               -> [ctx |-> NilCtx, err |-> "ErrSpanContextNotFound"]

\* -------------------------------------------------------- middleware options

\* url.URL.String(): path and query.
URLString(u) == IF u.query = "" THEN <<u.path>> ELSE <<u.path, "?", u.query>>

\* The functions callers hand to the options, by name.
CallOpNameFunc(f, rq) ==
    IF f = "default" THEN <<"HTTP ", rq.method>>           \* server.go:114-116
    ELSE <<"HTTP ", rq.method, ": /root">>                  \* server_test.go:22-24

CallSpanFilter(f, rq) ==
    IF f = "default" THEN TRUE                              \* server.go:117
    ELSE rq.userAgent # "kube-probe/1.12"                   \* server_test.go:126-128

CallStartSpanOptions(f, rq) ==
    IF f = "default" THEN << >>                             \* server.go:118
    ELSE << TagOption("custom", "x") >>

CallURLTagFunc(f, u) ==
    IF f = "default" THEN URLString(u)                      \* server.go:120-122
    ELSE <<u.path>>                                         \* server_test.go:178-181

\* The tags a span observer sets on the span it is given.
ObserverTags(f, rq) ==
    CASE f = "default"        -> {}                                     \* server.go:119
      [] f = "spanObserverfn" -> { <<"http.uri", <<rq.url.path>> >> }   \* server_test.go:68-70
      [] OTHER                -> { <<"hello", <<"world">> >> }

RECURSIVE SetTags(_, _, _)
SetTags(ss, i, kvs) ==
    IF kvs = {} THEN ss
    ELSE LET kv == CHOOSE x \in kvs : TRUE
         IN  SetTags([ss EXCEPT ![i].tags[kv[1]] = kv[2]], i, kvs \ {kv})

\* The observer is never called.
CallSpanObserver_Skips(f, ss, i, rq) == ss

\* opts.spanObserver(sp, r)
CallSpanObserver(f, ss, i, rq) == SetTags(ss, i, ObserverTags(f, rq))

OperationNameFunc(f) == [opt |-> "opNameFunc", f |-> f]
MWComponentName(n) == [opt |-> "componentName", f |-> n]
MWSpanFilter(f) == [opt |-> "spanFilter", f |-> f]
MWStartSpanOptions(f) == [opt |-> "startSpanOptions", f |-> f]
MWSpanObserver(f) == [opt |-> "spanObserver", f |-> f]
MWURLTagFunc(f) == [opt |-> "urlTagFunc", f |-> f]

\* opt(&opts)
ApplyOption(o, option) ==
    CASE option.opt = "opNameFunc"       -> [o EXCEPT !.opNameFunc = option.f]
      [] option.opt = "componentName"    -> [o EXCEPT !.componentName = option.f]
      [] option.opt = "spanFilter"       -> [o EXCEPT !.spanFilter = option.f]
      [] option.opt = "startSpanOptions" -> [o EXCEPT !.startSpanOptions = option.f]
      [] option.opt = "spanObserver"     -> [o EXCEPT !.spanObserver = option.f]
      [] OTHER                           -> [o EXCEPT !.urlTagFunc = option.f]

DefaultOptions ==
    [ opNameFunc       |-> "default",
      spanFilter       |-> "default",
      startSpanOptions |-> "default",
      spanObserver     |-> "default",
      urlTagFunc       |-> "default",
      componentName    |-> "" ]

RECURSIVE ApplyOptions(_, _)
ApplyOptions(o, options) ==
    IF options = << >> THEN o
    ELSE ApplyOptions(ApplyOption(o, Head(options)), Tail(options))

\* MiddlewareFunc(tr, h, options...): the option set the closure captures.
MiddlewareFunc(options) == ApplyOptions(DefaultOptions, options)

\* componentName := opts.componentName; "net/http" when the caller gave none.
ComponentName(o) ==
    IF o.componentName = "" THEN defaultComponentName ELSE o.componentName

\* The option lists middleware instances are built with.
OptionLists ==
    { << >>,
      << MWSpanFilter("spanFilterfn"), MWSpanObserver("spanObserverfn"),
         MWStartSpanOptions("tagOption") >>,
      << OperationNameFunc("fn"), MWSpanObserver("spanObserverfn") >>,
      << MWURLTagFunc("fn"), MWComponentName("custom") >>,
      << MWSpanObserver("spanObserverfn"), MWSpanObserver("helloWorldObserver") >> }

Requests ==
    [ method    : {"GET"},
      url       : {[path |-> "/root", query |-> "token=123"]},
      userAgent : {"kube-probe/1.12", "PostmanRuntime/7.3.0"},
      inbound   : {"absent", "corrupt", "valid"} ]

NoRequest ==
    [ method |-> "", url |-> [path |-> "", query |-> ""], userAgent |-> "",
      inbound |-> "absent" ]

\* ------------------------------------------- metricsTracker and its facade

\* uint16(x)
Uint16(x) == x % 65536

\* The original http.ResponseWriter: the first status written is the one it
\* commits; a body write or a flush before any WriteHeader commits 200.
NewSink == [status |-> 0, bytes |-> 0]
SinkWriteHeader(s, status) == IF s.status = 0 THEN [s EXCEPT !.status = status] ELSE s
SinkWrite(s, n) ==
    [status |-> IF s.status = 0 THEN StatusOK ELSE s.status, bytes |-> s.bytes + n]
SinkFlush(s) == [s EXCEPT !.status = IF @ = 0 THEN StatusOK ELSE @]

\* &metricsTracker{ResponseWriter: w}
NewMetricsTracker == [status |-> 0, size |-> 0]

\* (*metricsTracker).WriteHeader: w.status = status
WriteHeader(m, status) == [m EXCEPT !.status = status]

\* Write counts the bytes it was asked to write.
Write_CountsRequested(m, b, size) == [m EXCEPT !.size = @ + b]

\* (*metricsTracker).Write: b is len(b), size what the underlying Write returned.
Write(m, b, size) == [m EXCEPT !.size = @ + size]

\* (*metricsTracker).WriteString: s is len(s), size what io.WriteString returned.
WriteString(m, s, size) == [m EXCEPT !.size = @ + size]

\* wrappedResponseWriter always returns the bare struct of its default case.
wrappedResponseWriter_Bare(caps) == [ResponseWriter |-> "w", StringWriter |-> "w"]

\* (*metricsTracker).wrappedResponseWriter: the struct returned, as its embedded
\* fields and what each is initialised with (w: the metricsTracker; hj, cn, pu,
\* fl, rf: the original writer asserted to that interface).
wrappedResponseWriter(caps) ==
    LET i0 == "Hijacker" \in caps
        i1 == "CloseNotifier" \in caps
        i2 == "Pusher" \in caps
        i3 == "Flusher" \in caps
        i4 == "ReaderFrom" \in caps
    IN
    CASE ~i0 /\ ~i1 /\ ~i2 /\ ~i3 /\ ~i4 -> [ResponseWriter |-> "w", StringWriter |-> "w"]   \* line 47
      [] ~i0 /\ ~i1 /\ ~i2 /\ ~i3 /\  i4 -> [ResponseWriter |-> "w", StringWriter |-> "w", ReaderFrom |-> "rf"]   \* line 52
      [] ~i0 /\ ~i1 /\ ~i2 /\  i3 /\ ~i4 -> [ResponseWriter |-> "w", StringWriter |-> "w", Flusher |-> "fl"]   \* line 58
      [] ~i0 /\ ~i1 /\ ~i2 /\  i3 /\  i4 -> [ResponseWriter |-> "w", StringWriter |-> "w", Flusher |-> "fl", ReaderFrom |-> "rf"]   \* line 64
      [] ~i0 /\ ~i1 /\  i2 /\ ~i3 /\ ~i4 -> [ResponseWriter |-> "w", StringWriter |-> "w", Pusher |-> "pu"]   \* line 71
      [] ~i0 /\ ~i1 /\  i2 /\ ~i3 /\  i4 -> [ResponseWriter |-> "w", StringWriter |-> "w", Pusher |-> "pu", ReaderFrom |-> "rf"]   \* line 77
      [] ~i0 /\ ~i1 /\  i2 /\  i3 /\ ~i4 -> [ResponseWriter |-> "w", StringWriter |-> "w", Pusher |-> "pu", Flusher |-> "fl"]   \* line 84
      [] ~i0 /\ ~i1 /\  i2 /\  i3 /\  i4 -> [ResponseWriter |-> "w", StringWriter |-> "w", Pusher |-> "pu", Flusher |-> "fl", ReaderFrom |-> "rf"]   \* line 91
      [] ~i0 /\  i1 /\ ~i2 /\ ~i3 /\ ~i4 -> [ResponseWriter |-> "w", StringWriter |-> "w", CloseNotifier |-> "cn"]   \* line 99
      [] ~i0 /\  i1 /\ ~i2 /\ ~i3 /\  i4 -> [ResponseWriter |-> "w", StringWriter |-> "w", CloseNotifier |-> "cn", ReaderFrom |-> "rf"]   \* line 105
      [] ~i0 /\  i1 /\ ~i2 /\  i3 /\ ~i4 -> [ResponseWriter |-> "w", StringWriter |-> "w", CloseNotifier |-> "cn", Flusher |-> "fl"]   \* line 112
      [] ~i0 /\  i1 /\ ~i2 /\  i3 /\  i4 -> [ResponseWriter |-> "w", StringWriter |-> "w", CloseNotifier |-> "cn", Flusher |-> "fl", ReaderFrom |-> "rf"]   \* line 119
      [] ~i0 /\  i1 /\  i2 /\ ~i3 /\ ~i4 -> [ResponseWriter |-> "w", StringWriter |-> "w", CloseNotifier |-> "cn", Pusher |-> "pu"]   \* line 127
      [] ~i0 /\  i1 /\  i2 /\ ~i3 /\  i4 -> [ResponseWriter |-> "w", StringWriter |-> "w", CloseNotifier |-> "cn", Pusher |-> "pu", ReaderFrom |-> "rf"]   \* line 134
      [] ~i0 /\  i1 /\  i2 /\  i3 /\ ~i4 -> [ResponseWriter |-> "w", StringWriter |-> "w", CloseNotifier |-> "cn", Pusher |-> "pu", Flusher |-> "fl"]   \* line 142
      [] ~i0 /\  i1 /\  i2 /\  i3 /\  i4 -> [ResponseWriter |-> "w", StringWriter |-> "w", CloseNotifier |-> "cn", Pusher |-> "pu", Flusher |-> "fl", ReaderFrom |-> "rf"]   \* line 150
      []  i0 /\ ~i1 /\ ~i2 /\ ~i3 /\ ~i4 -> [ResponseWriter |-> "w", StringWriter |-> "w", Hijacker |-> "hj"]   \* line 159
      []  i0 /\ ~i1 /\ ~i2 /\ ~i3 /\  i4 -> [ResponseWriter |-> "w", StringWriter |-> "w", Hijacker |-> "hj", ReaderFrom |-> "rf"]   \* line 165
      []  i0 /\ ~i1 /\ ~i2 /\  i3 /\ ~i4 -> [ResponseWriter |-> "w", StringWriter |-> "w", Hijacker |-> "hj", Flusher |-> "fl"]   \* line 172
      []  i0 /\ ~i1 /\ ~i2 /\  i3 /\  i4 -> [ResponseWriter |-> "w", StringWriter |-> "w", Hijacker |-> "hj", Flusher |-> "fl", ReaderFrom |-> "rf"]   \* line 179
      []  i0 /\ ~i1 /\  i2 /\ ~i3 /\ ~i4 -> [ResponseWriter |-> "w", StringWriter |-> "w", Hijacker |-> "hj", Pusher |-> "pu"]   \* line 187
      []  i0 /\ ~i1 /\  i2 /\ ~i3 /\  i4 -> [ResponseWriter |-> "w", StringWriter |-> "w", Hijacker |-> "hj", Pusher |-> "pu", ReaderFrom |-> "rf"]   \* line 194
      []  i0 /\ ~i1 /\  i2 /\  i3 /\ ~i4 -> [ResponseWriter |-> "w", StringWriter |-> "w", Hijacker |-> "hj", Pusher |-> "pu", Flusher |-> "fl"]   \* line 202
      []  i0 /\ ~i1 /\  i2 /\  i3 /\  i4 -> [ResponseWriter |-> "w", StringWriter |-> "w", Hijacker |-> "hj", Pusher |-> "pu", Flusher |-> "fl", ReaderFrom |-> "rf"]   \* line 210
      []  i0 /\  i1 /\ ~i2 /\ ~i3 /\ ~i4 -> [ResponseWriter |-> "w", StringWriter |-> "w", Hijacker |-> "hj", CloseNotifier |-> "cn"]   \* line 219
      []  i0 /\  i1 /\ ~i2 /\ ~i3 /\  i4 -> [ResponseWriter |-> "w", StringWriter |-> "w", Hijacker |-> "hj", CloseNotifier |-> "cn", ReaderFrom |-> "rf"]   \* line 226
      []  i0 /\  i1 /\ ~i2 /\  i3 /\ ~i4 -> [ResponseWriter |-> "w", StringWriter |-> "w", Hijacker |-> "hj", CloseNotifier |-> "cn", Flusher |-> "fl"]   \* line 234
      []  i0 /\  i1 /\ ~i2 /\  i3 /\  i4 -> [ResponseWriter |-> "w", StringWriter |-> "w", Hijacker |-> "hj", CloseNotifier |-> "cn", Flusher |-> "fl", ReaderFrom |-> "rf"]   \* line 242
      []  i0 /\  i1 /\  i2 /\ ~i3 /\ ~i4 -> [ResponseWriter |-> "w", StringWriter |-> "w", Hijacker |-> "hj", CloseNotifier |-> "cn", Pusher |-> "pu"]   \* line 251
      []  i0 /\  i1 /\  i2 /\ ~i3 /\  i4 -> [ResponseWriter |-> "w", StringWriter |-> "w", Hijacker |-> "hj", CloseNotifier |-> "cn", Pusher |-> "pu", ReaderFrom |-> "rf"]   \* line 259
      []  i0 /\  i1 /\  i2 /\  i3 /\ ~i4 -> [ResponseWriter |-> "w", StringWriter |-> "w", Hijacker |-> "hj", CloseNotifier |-> "cn", Pusher |-> "pu", Flusher |-> "fl"]   \* line 268
      []  i0 /\  i1 /\  i2 /\  i3 /\  i4 -> [ResponseWriter |-> "w", StringWriter |-> "w", Hijacker |-> "hj", CloseNotifier |-> "cn", Pusher |-> "pu", Flusher |-> "fl", ReaderFrom |-> "rf"]   \* line 277
      [] OTHER -> [ResponseWriter |-> "w", StringWriter |-> "w"]   \* line 287

\* The original writer itself, handed over unwrapped.
OriginalWriter(caps) == [x \in {"ResponseWriter"} \cup caps |-> "orig"]

NoWriter == [ResponseWriter |-> "none"]

\* The optional interfaces a type assertion on writer value f finds.
Exposes(f) == DOMAIN f \cap Caps

\* Whether calls on f's ResponseWriter go through the metricsTracker.
Tracked(f) == f.ResponseWriter = "w"

\* ---------------------------------------------------- MiddlewareFunc: fn

Bump(f, r) == [f EXCEPT ![r] = @ + 1]

\* collectStartSpanOptions drops the RPC server option.
collectStartSpanOptions_UserOnly(ctx, rq, o) ==
    CallStartSpanOptions(o.startSpanOptions, rq)

\* collectStartSpanOptions(ctx, r, opts): ext.RPCServerOption(ctx) first, then
\* the ones opts.startSpanOptions(r) supplies.
collectStartSpanOptions(ctx, rq, o) ==
    << RPCServerOption(ctx) >> \o CallStartSpanOptions(o.startSpanOptions, rq)

\* The handler is handed the request it came with.
requestWithSpan_Original(ctx, i) == ctx

\* r = r.WithContext(opentracing.ContextWithSpan(r.Context(), sp)): the span
\* the context of the new request value carries (ctx: the one it carried before).
requestWithSpan(ctx, i) == i

\* if !opts.spanFilter(r) { h(w, r); return }
fnFiltered(r) ==
    /\ hw' = [hw EXCEPT ![r] = OriginalWriter(under[r])]
    /\ hctx' = [hctx EXCEPT ![r] = 0]
    /\ calls' = Bump(calls, r)
    /\ pc' = [pc EXCEPT ![r] = "handler"]
    /\ UNCHANGED << mt, sp, traceCalls, spans >>

\* Extract, StartSpan, the three tags, the observer, the metricsTracker, the
\* request context, the deferred function registered, h(mt.wrappedResponseWriter(), r).
fnTraced(r) ==
    LET rq == req[r]
        ex == Extract(rq.inbound)
        startSpanOptions == collectStartSpanOptions(ex.ctx, rq, opts)
        s0 == StartSpan(spans, r, CallOpNameFunc(opts.opNameFunc, rq), startSpanOptions)
        i  == Len(s0)
        s1 == SetTag(s0, i, "http.method", rq.method)
        s2 == SetTag(s1, i, "http.url", CallURLTagFunc(opts.urlTagFunc, rq.url))
        s3 == SetTag(s2, i, "component", compName)
        s4 == CallSpanObserver(opts.spanObserver, s3, i, rq)
    IN  /\ spans' = s4
        /\ sp' = [sp EXCEPT ![r] = i]
        /\ traceCalls' = [traceCalls EXCEPT ![r] =
                            [extract |-> @.extract + 1, observer |-> @.observer + 1]]
        /\ mt' = [mt EXCEPT ![r] = NewMetricsTracker]
        /\ hctx' = [hctx EXCEPT ![r] = requestWithSpan(0, i)]
        /\ hw' = [hw EXCEPT ![r] = wrappedResponseWriter(under[r])]
        /\ calls' = Bump(calls, r)
        /\ pc' = [pc EXCEPT ![r] = "handler"]

\* fn traces every request, whatever the span filter says.
fn_IgnoresFilter(r) ==
    /\ pc[r] = "idle"
    /\ fnTraced(r)
    /\ UNCHANGED << opts, compName, req, under, sink, steps, headerCalls, accepted,
                    thrown, panicErr, result, cliVars >>

\* fn := func(w http.ResponseWriter, r *http.Request), up to the call of h.
fn(r) ==
    /\ pc[r] = "idle"
    /\ IF ~CallSpanFilter(opts.spanFilter, req[r]) THEN fnFiltered(r) ELSE fnTraced(r)
    /\ UNCHANGED << opts, compName, req, under, sink, steps, headerCalls, accepted,
                    thrown, panicErr, result, cliVars >>

\* ------------------------------------------------------- the wrapped handler

\* Writer calls made so far by the handlers of all requests.
TotalSteps == steps[1] + steps[2]

\* The requests the middleware instance serves.
InFlight == { r \in Reqs : pc[r] # "absent" }

InHandler(r) ==
    /\ pc[r] = "handler"
    /\ steps[r] < MaxSteps
    /\ Cardinality(InFlight) > 1 => TotalSteps < MaxConcurrentSteps

handlerFrame ==
    << opts, compName, req, under, pc, sp, hw, hctx, calls, thrown, panicErr,
       result, traceCalls, spans, cliVars >>

\* One metricsTracker serves all requests: a status written by one handler is
\* recorded for every request.
HandlerWriteHeader_SharedTracker(r) ==
    /\ InHandler(r)
    /\ \E status \in Statuses :
         /\ mt' = IF Tracked(hw[r]) THEN [q \in Reqs |-> WriteHeader(mt[q], status)] ELSE mt
         /\ sink' = [sink EXCEPT ![r] = SinkWriteHeader(@, status)]
    /\ headerCalls' = Bump(headerCalls, r)
    /\ steps' = Bump(steps, r)
    /\ UNCHANGED << handlerFrame, accepted >>

\* w.WriteHeader(status)
HandlerWriteHeader(r) ==
    /\ InHandler(r)
    /\ \E status \in Statuses :
         /\ mt' = IF Tracked(hw[r]) THEN [mt EXCEPT ![r] = WriteHeader(@, status)] ELSE mt
         /\ sink' = [sink EXCEPT ![r] = SinkWriteHeader(@, status)]
    /\ headerCalls' = Bump(headerCalls, r)
    /\ steps' = Bump(steps, r)
    /\ UNCHANGED << handlerFrame, accepted >>

\* w.Write(b): the sink accepts size <= len(b) bytes (fewer with an error).
HandlerWrite(r) ==
    /\ InHandler(r)
    /\ \E b \in 0 .. MaxLen : \E size \in 0 .. b :
         /\ mt' = IF Tracked(hw[r]) THEN [mt EXCEPT ![r] = Write(@, b, size)] ELSE mt
         /\ sink' = [sink EXCEPT ![r] = SinkWrite(@, size)]
         /\ accepted' = [accepted EXCEPT ![r] = @ + size]
    /\ steps' = Bump(steps, r)
    /\ UNCHANGED << handlerFrame, headerCalls >>

\* w.(io.StringWriter).WriteString(s), which the facade always offers.
HandlerWriteString(r) ==
    /\ InHandler(r)
    /\ "StringWriter" \in DOMAIN hw[r]
    /\ \E s \in 0 .. MaxLen : \E size \in 0 .. s :
         /\ mt' = IF hw[r].StringWriter = "w"
                  THEN [mt EXCEPT ![r] = WriteString(@, s, size)] ELSE mt
         /\ sink' = [sink EXCEPT ![r] = SinkWrite(@, size)]
         /\ accepted' = [accepted EXCEPT ![r] = @ + size]
    /\ steps' = Bump(steps, r)
    /\ UNCHANGED << handlerFrame, headerCalls >>

\* w.(io.ReaderFrom).ReadFrom(src): served by the original writer (rf).
HandlerReadFrom(r) ==
    /\ InHandler(r)
    /\ "ReaderFrom" \in Exposes(hw[r])
    /\ \E n \in 0 .. MaxLen :
         sink' = [sink EXCEPT ![r] = SinkWrite(@, n)]
    /\ steps' = Bump(steps, r)
    /\ UNCHANGED << handlerFrame, mt, headerCalls, accepted >>

\* w.(http.Flusher).Flush(): served by the original writer (fl).
HandlerFlush(r) ==
    /\ InHandler(r)
    /\ "Flusher" \in Exposes(hw[r])
    /\ sink' = [sink EXCEPT ![r] = SinkFlush(@)]
    /\ steps' = Bump(steps, r)
    /\ UNCHANGED << handlerFrame, mt, headerCalls, accepted >>

\* The handler returns. Without a span there is no deferred function: fn returns.
HandlerReturn(r) ==
    /\ pc[r] = "handler"
    /\ IF sp[r] = 0
       THEN /\ pc' = [pc EXCEPT ![r] = "done"]
            /\ result' = [result EXCEPT ![r] = "returned"]
       ELSE /\ pc' = [pc EXCEPT ![r] = "deferred"]
            /\ UNCHANGED result
    /\ UNCHANGED << opts, compName, req, under, sink, mt, sp, hw, hctx, calls, steps,
                    headerCalls, accepted, thrown, panicErr, traceCalls, spans, cliVars >>

\* The handler panics with v. Without a span the panic unwinds through fn.
HandlerPanic(r) ==
    /\ pc[r] = "handler"
    /\ \E v \in PanicValues :
         /\ thrown' = [thrown EXCEPT ![r] = v]
         /\ IF sp[r] = 0
            THEN /\ pc' = [pc EXCEPT ![r] = "done"]
                 /\ result' = [result EXCEPT ![r] = v]
            ELSE /\ pc' = [pc EXCEPT ![r] = "deferred"]
                 /\ UNCHANGED result
    /\ UNCHANGED << opts, compName, req, under, sink, mt, sp, hw, hctx, calls, steps,
                    headerCalls, accepted, panicErr, traceCalls, spans, cliVars >>

\* ------------------------------------------------- fn's deferred function

\* A panic leaves the status as the handler left it, a return too.
assumedStatus_Never(m, didPanic) == m.status

\* 200 is assumed after a panic too.
assumedStatus_Always(m, didPanic) == IF m.status = 0 THEN StatusOK ELSE m.status

\* if mt.status == 0 && !didPanic { mt.status = 200 }
assumedStatus(m, didPanic) ==
    IF m.status = 0 /\ ~didPanic THEN StatusOK ELSE m.status

\* The error flag only above 500.
isError_Above(status, didPanic) == status > StatusInternalServerError \/ didPanic

\* mt.status >= http.StatusInternalServerError || didPanic
isError(status, didPanic) == status >= StatusInternalServerError \/ didPanic

deferFrame ==
    << opts, compName, req, under, sink, sp, hw, hctx, calls, steps, headerCalls,
       accepted, thrown, traceCalls, cliVars >>

\* panicErr := recover() and the tags: status, response size, error.
\* recover() returns the value of the panic in flight, nil when there is none.
DeferredTags(r) ==
    /\ pc[r] = "deferred"
    /\ LET err == thrown[r]
           didPanic == err # Nil
           status == assumedStatus(mt[r], didPanic)
           m == [mt[r] EXCEPT !.status = status]
           s1 == IF status > 0
                 THEN SetTag(spans, sp[r], "http.status_code", Uint16(status))
                 ELSE spans
           s2 == IF m.size > 0 THEN SetTag(s1, sp[r], responseSizeKey, m.size) ELSE s1
           s3 == IF isError(status, didPanic) THEN SetTag(s2, sp[r], "error", TRUE) ELSE s2
       IN  /\ panicErr' = [panicErr EXCEPT ![r] = err]
           /\ mt' = [mt EXCEPT ![r] = m]
           /\ spans' = s3
    /\ pc' = [pc EXCEPT ![r] = "finish"]
    /\ UNCHANGED << deferFrame, result >>

\* Finish is skipped when the handler panicked.
DeferredFinish_NotOnPanic(r) ==
    /\ pc[r] = "finish"
    /\ spans' = IF panicErr[r] # Nil THEN spans ELSE Finish(spans, sp[r])
    /\ pc' = [pc EXCEPT ![r] = "exit"]
    /\ UNCHANGED << deferFrame, mt, panicErr, result >>

\* sp.Finish()
DeferredFinish(r) ==
    /\ pc[r] = "finish"
    /\ spans' = Finish(spans, sp[r])
    /\ pc' = [pc EXCEPT ![r] = "exit"]
    /\ UNCHANGED << deferFrame, mt, panicErr, result >>

\* The recovered panic is swallowed.
DeferredExit_Swallows(r) ==
    /\ pc[r] = "exit"
    /\ result' = [result EXCEPT ![r] = "returned"]
    /\ pc' = [pc EXCEPT ![r] = "done"]
    /\ UNCHANGED << deferFrame, mt, panicErr, spans >>

\* if didPanic { panic(panicErr) }, else fn returns.
DeferredExit(r) ==
    /\ pc[r] = "exit"
    /\ result' = [result EXCEPT ![r] =
                    IF panicErr[r] # Nil THEN panicErr[r] ELSE "returned"]
    /\ pc' = [pc EXCEPT ![r] = "done"]
    /\ UNCHANGED << deferFrame, mt, panicErr, spans >>

\* ------------------------------------------------------------ specifications

\* A middleware instance built from one of optionLists, and one pending
\* request per id in active, each with one of writers as its ResponseWriter.
SrvInit(optionLists, requests, writers, active) ==
    /\ opts \in { MiddlewareFunc(l) : l \in optionLists }
    /\ compName = ComponentName(opts)
    /\ \E f \in [active -> requests] :
         req = [r \in Reqs |-> IF r \in active THEN f[r] ELSE NoRequest]
    /\ \E g \in [active -> writers] :
         under = [r \in Reqs |-> IF r \in active THEN g[r] ELSE {}]
    /\ sink = [r \in Reqs |-> NewSink]
    /\ pc = [r \in Reqs |-> IF r \in active THEN "idle" ELSE "absent"]
    /\ mt = [r \in Reqs |-> NewMetricsTracker]
    /\ sp = [r \in Reqs |-> 0]
    /\ hw = [r \in Reqs |-> NoWriter]
    /\ hctx = [r \in Reqs |-> 0]
    /\ calls = [r \in Reqs |-> 0]
    /\ steps = [r \in Reqs |-> 0]
    /\ headerCalls = [r \in Reqs |-> 0]
    /\ accepted = [r \in Reqs |-> 0]
    /\ thrown = [r \in Reqs |-> Nil]
    /\ panicErr = [r \in Reqs |-> Nil]
    /\ result = [r \in Reqs |-> "pending"]
    /\ traceCalls = [r \in Reqs |-> [extract |-> 0, observer |-> 0]]

NoTracker == [root |-> 0, parent |-> 0, sp |-> 0]

NoClientRequest ==
    [method |-> "", url |-> [host |-> "", path |-> "", query |-> ""], parent |-> 0,
     injectSpanContext |-> "default"]

\* No outbound request.
CliAbsent ==
    /\ creq = NoClientRequest
    /\ attached = FALSE
    /\ ht = NoTracker
    /\ cpc = "absent"
    /\ hops = << >>
    /\ bodies = << >>
    /\ redirects = 0
    /\ userCalls = [close |-> 0, finish |-> 0]

ServerNext ==
    \E r \in Reqs :
        \/ fn(r)
        \/ HandlerWriteHeader(r)
        \/ HandlerWrite(r)
        \/ HandlerWriteString(r)
        \/ HandlerReadFrom(r)
        \/ HandlerFlush(r)
        \/ HandlerReturn(r)
        \/ HandlerPanic(r)
        \/ DeferredTags(r)
        \/ DeferredFinish(r)
        \/ DeferredExit(r)

\* One request through a middleware instance, over the option lists, the
\* requests and the standard library's writers.
Init ==
    /\ SrvInit(OptionLists, Requests, StdWriters, {1})
    /\ spans = << >>
    /\ CliAbsent

Spec == Init /\ [][ServerNext]_vars

\* One request through a default middleware instance, over every combination
\* of the optional interfaces of the original writer.
InitAllCaps ==
    /\ SrvInit({ << >> },
               { rq \in Requests : rq.inbound = "valid" /\ rq.userAgent = "PostmanRuntime/7.3.0" },
               SUBSET Caps, {1})
    /\ spans = << >>
    /\ CliAbsent

SpecAllCaps == InitAllCaps /\ [][ServerNext]_vars

\* Two requests in flight at once through one default middleware instance,
\* each on an HTTP/1 response writer of its own; their steps interleave freely.
InitConcurrent ==
    /\ SrvInit({ << >> },
               { rq \in Requests : rq.inbound = "valid" /\ rq.userAgent = "PostmanRuntime/7.3.0" },
               { {"Hijacker", "CloseNotifier", "Flusher", "ReaderFrom"} }, {1, 2})
    /\ spans = << >>
    /\ CliAbsent

SpecConcurrent == InitConcurrent /\ [][ServerNext]_vars

\* ------------------------------------------------------------ client: Tracer

\* Redirects a client follows before it stops.
MaxRedirects == 1
\* Calls of one kind (Close, Finish) the caller makes once Do has returned.
MaxUserCalls == 2

\* Status codes of the responses a server sends.
ResponseStatuses == {101, StatusOK, 307, StatusInternalServerError}

\* Outbound requests: the span the caller hands to TraceRequest (0: nil), and
\* what the caller wants of span-context injection (client_test.go:218-220:
\* nothing said, InjectSpanContext(true), InjectSpanContext(false)).
ClientRequests ==
    [ method : {"GET", "HEAD", "POST"},
      url    : {[host |-> "127.0.0.1:80", path |-> "/redirect", query |-> "token=a"]},
      parent : {0, 1},
      injectSpanContext : {"default"} ]
    \cup
    [ method : {"GET"},
      url    : {[host |-> "127.0.0.1:80", path |-> "/redirect", query |-> "token=a"]},
      parent : {1},
      injectSpanContext : {"true", "false"} ]

\* The propagation headers Inject leaves on the outbound request for span
\* context ctx, as the carrier the server's Extract reads.
Headers(ctx) == IF ctx = NilCtx THEN "absent" ELSE "valid"

\* What a RoundTrip call yields: the response (its status, 0 for a nil
\* response), the error, and the response's body: none, raw (the wrapped
\* RoundTripper's own), tracked (a closeTracker), or, for a call that has not
\* returned, pending; a call that ends in a run-time panic yields panic.
Outcome(status, err, body) == [status |-> status, err |-> err, body |-> body]

NoOutcome == Outcome(0, Nil, "pending")

\* Errors of the wrapped RoundTripper.
TransportErrors == {"dial error"}

\* Span.LogEventWithPayload(name, payload) on span i.
LogEventWithPayload(ss, i, e, payload) == [ss EXCEPT ![i].logs = Append(@, <<e, payload>>)]

\* url.URL.String() of an absolute URL.
AbsURLString(u) == <<u.host>> \o URLString(u)

\* newTrace(parent): the root span, a child of parent's context, tagged
\* span.kind=client; the Tracer{root, root, nil}.
newTrace(ss, parent) ==
    LET ctx == IF parent # 0 THEN Context(parent) ELSE NilCtx
        s0  == StartSpan(ss, 0, <<"HTTP">>, << ChildOf(ctx) >>)
        root == Len(s0)
    IN  [ h  |-> [root |-> root, parent |-> root, sp |-> 0],
          ss |-> SetTag(s0, root, "span.kind", "client") ]

\* start never takes a context from h.parent.
start_NoParent(h, ss, rq) ==
    LET s0 == StartSpan(ss, 0, <<"HTTP ", rq.method>>, << ChildOf(NilCtx) >>)
        i  == Len(s0)
        s1 == SetTag(s0, i, "span.kind", "client")
        s2 == SetTag(s1, i, "component", "net/http")
    IN  [ h |-> [h EXCEPT !.sp = i, !.parent = i], ss |-> s2 ]

\* start leaves h.parent at the root: every hop a child of the root span.
start_KeepsParent(h, ss, rq) ==
    LET ctx == IF h.parent # 0 THEN Context(h.parent) ELSE NilCtx
        s0  == StartSpan(ss, 0, <<"HTTP ", rq.method>>, << ChildOf(ctx) >>)
        i   == Len(s0)
        s1  == SetTag(s0, i, "span.kind", "client")
        s2  == SetTag(s1, i, "component", "net/http")
    IN  [ h |-> [h EXCEPT !.sp = i], ss |-> s2 ]

\* (*Tracer).start(req): a span "HTTP "+req.Method, child of h.parent's
\* context; it becomes h.sp and h.parent.
start(h, ss, rq) ==
    LET ctx == IF h.parent # 0 THEN Context(h.parent) ELSE NilCtx
        s0  == StartSpan(ss, 0, <<"HTTP ", rq.method>>, << ChildOf(ctx) >>)
        i   == Len(s0)
        s1  == SetTag(s0, i, "span.kind", "client")
        s2  == SetTag(s1, i, "component", "net/http")
    IN  [ h |-> [h EXCEPT !.sp = i, !.parent = i], ss |-> s2 ]

\* (*Tracer).Span()
Span(h) == h.root

cliFrame == << creq, attached, ht, hops, bodies, redirects, userCalls, srvVars >>

\* The caller sends the request as it is, without TraceRequest.
SendPlain ==
    /\ cpc = "new"
    /\ cpc' = "send"
    /\ UNCHANGED << cliFrame, spans >>

\* TraceRequest(sp, req): newTrace(sp), the ClientTrace and the Tracer put in
\* the request's context. A nil sp makes parent.Tracer() a call on a nil
\* interface: a run-time panic.
TraceRequest ==
    /\ cpc = "new"
    /\ IF creq.parent = 0
       THEN /\ cpc' = "crashed"
            /\ UNCHANGED << attached, ht, spans >>
       ELSE LET t == newTrace(spans, creq.parent)
            IN  /\ ht' = t.h
                /\ spans' = t.ss
                /\ attached' = TRUE
                /\ cpc' = "send"
    /\ UNCHANGED << creq, hops, bodies, redirects, userCalls, srvVars >>

\* RoundTrip starts and tags a span and injects whether or not the request's
\* context holds a Tracer.
RoundTripBegin_NoOkCheck ==
    /\ cpc = "send"
    /\ LET st == start(ht, spans, creq)
           i  == st.h.sp
           s1 == SetTag(st.ss, i, "http.method", creq.method)
           s2 == SetTag(s1, i, "http.url", AbsURLString(creq.url))
       IN  /\ ht' = st.h
           /\ spans' = s2
           /\ hops' = Append(hops, [span |-> i, stage |-> 0, injected |-> Context(i),
                                    got |-> NoOutcome, ret |-> NoOutcome])
    /\ cpc' = "rt"
    /\ UNCHANGED << creq, attached, bodies, redirects, userCalls, srvVars >>

\* Transport.RoundTrip calls the wrapped RoundTripper without tracer.start.
RoundTripBegin_NoStart ==
    /\ cpc = "send"
    /\ hops' = Append(hops, [span |-> 0, stage |-> 0, injected |-> NilCtx,
                             got |-> NoOutcome, ret |-> NoOutcome])
    /\ cpc' = "rt"
    /\ UNCHANGED << creq, attached, ht, spans, bodies, redirects, userCalls, srvVars >>

\* RoundTrip injects the root span's context on every hop.
RoundTripBegin_InjectsRoot ==
    /\ cpc = "send"
    /\ IF ~attached
       THEN /\ hops' = Append(hops, [span |-> 0, stage |-> 0, injected |-> NilCtx,
                                     got |-> NoOutcome, ret |-> NoOutcome])
            /\ UNCHANGED << ht, spans >>
       ELSE LET st == start(ht, spans, creq)
                i  == st.h.sp
                s1 == SetTag(st.ss, i, "http.method", creq.method)
                s2 == SetTag(s1, i, "http.url", AbsURLString(creq.url))
            IN  /\ ht' = st.h
                /\ spans' = s2
                /\ hops' = Append(hops, [span |-> i, stage |-> 0, injected |-> Context(ht.root),
                                         got |-> NoOutcome, ret |-> NoOutcome])
    /\ cpc' = "rt"
    /\ UNCHANGED << creq, attached, bodies, redirects, userCalls, srvVars >>

\* Transport.RoundTrip up to the call of the wrapped RoundTripper: without a
\* Tracer nothing; with one, start, the method and URL tags, Inject.
RoundTripBegin ==
    /\ cpc = "send"
    /\ IF ~attached
       THEN /\ hops' = Append(hops, [span |-> 0, stage |-> 0, injected |-> NilCtx,
                                     got |-> NoOutcome, ret |-> NoOutcome])
            /\ UNCHANGED << ht, spans >>
       ELSE LET st == start(ht, spans, creq)
                i  == st.h.sp
                s1 == SetTag(st.ss, i, "http.method", creq.method)
                s2 == SetTag(s1, i, "http.url", AbsURLString(creq.url))
            IN  /\ ht' = st.h
                /\ spans' = s2
                /\ hops' = Append(hops, [span |-> i, stage |-> 0, injected |-> Context(i),
                                         got |-> NoOutcome, ret |-> NoOutcome])
    /\ cpc' = "rt"
    /\ UNCHANGED << creq, attached, bodies, redirects, userCalls, srvVars >>

\* The request TraceRequest returned is sent by a client whose RoundTripper
\* is not a Transport (http.DefaultTransport itself): the ClientTrace is in
\* the request's context, no Transport.RoundTrip runs.
DirectRoundTrip ==
    /\ cpc = "send" /\ attached /\ hops = << >>
    /\ hops' = Append(hops, [span |-> 0, stage |-> 0, injected |-> NilCtx,
                             got |-> NoOutcome, ret |-> NoOutcome])
    /\ cpc' = "direct"
    /\ UNCHANGED << creq, attached, ht, spans, bodies, redirects, userCalls, srvVars >>

\* ------------------------------------------- client: httptrace callbacks

\* The hop the transport is serving.
cur == Len(hops)

\* The transport fires the callbacks of a hop in the order of its connection:
\* GetConn, (DNSStart, DNSDone, ConnectStart, ConnectDone)?, GotConn,
\* WroteHeaders, (Wait100Continue, Got100Continue)?, WroteRequest,
\* GotFirstResponseByte. A request with a body (POST) is sent with
\* Expect: 100-continue. After a failed write (stage 13) no response arrives.
AtStage(n) == attached /\ cpc = "rt" /\ hops[cur].stage = n

ToStage(n) == hops' = [hops EXCEPT ![cur].stage = n]

cbFrame == << creq, attached, ht, cpc, bodies, redirects, userCalls, srvVars >>

\* GetConn is the first callback http.Transport fires for a request, on the
\* goroutine that called RoundTrip. With h.sp nil (no start has run) the
\* SetTag is a call on a nil interface: a run-time panic.
getConn ==
    /\ attached /\ cpc \in {"rt", "direct"} /\ hops[cur].stage = 0
    /\ ToStage(1)
    /\ IF ht.sp = 0
       THEN /\ cpc' = "crashed"
            /\ UNCHANGED spans
       ELSE /\ spans' = LogEvent(SetTag(spans, ht.sp, "http.url", <<creq.url.host>>),
                                 ht.sp, <<"Get conn">>)
            /\ UNCHANGED cpc
    /\ UNCHANGED << creq, attached, ht, bodies, redirects, userCalls, srvVars >>

dnsStart ==
    /\ AtStage(1)
    /\ spans' = LogEventWithPayload(spans, ht.sp, "DNS start", creq.url.host)
    /\ ToStage(2)
    /\ UNCHANGED cbFrame

dnsDone ==
    /\ AtStage(2)
    /\ spans' = LogEvent(spans, ht.sp, <<"DNS done">>)
    /\ ToStage(3)
    /\ UNCHANGED cbFrame

connectStart ==
    /\ AtStage(3)
    /\ spans' = LogEventWithPayload(spans, ht.sp, "Connect start", creq.url.host)
    /\ ToStage(4)
    /\ UNCHANGED cbFrame

connectDone ==
    /\ AtStage(4)
    /\ spans' = LogEventWithPayload(spans, ht.sp, "Connect start", creq.url.host)
    /\ ToStage(5)
    /\ UNCHANGED cbFrame

\* A new connection (after ConnectDone) or one taken from the idle pool.
gotConn ==
    /\ AtStage(1) \/ AtStage(5)
    /\ LET reused == hops[cur].stage = 1
           s1 == SetTag(spans, ht.sp, "net/http.reused", reused)
           s2 == SetTag(s1, ht.sp, "net/http.was_idle", reused)
       IN  spans' = LogEvent(s2, ht.sp, <<"Got conn">>)
    /\ ToStage(6)
    /\ UNCHANGED cbFrame

wroteHeaders ==
    /\ AtStage(6)
    /\ spans' = LogEvent(spans, ht.sp, <<"Wrote headers">>)
    /\ ToStage(7)
    /\ UNCHANGED cbFrame

wait100Continue ==
    /\ AtStage(7)
    /\ creq.method = "POST"
    /\ spans' = LogEvent(spans, ht.sp, <<"Wait 100 continue">>)
    /\ ToStage(8)
    /\ UNCHANGED cbFrame

got100Continue ==
    /\ AtStage(8)
    /\ spans' = LogEvent(spans, ht.sp, <<"Got 100 continue">>)
    /\ ToStage(9)
    /\ UNCHANGED cbFrame

\* info.Err is nil, or the error of a failed write.
wroteRequest ==
    /\ (AtStage(7) /\ creq.method # "POST") \/ AtStage(9)
    /\ \E err \in {Nil, "write error"} :
         /\ spans' = LogEvent(IF err # Nil THEN SetTag(spans, ht.sp, "error", TRUE)
                                            ELSE spans,
                              ht.sp, <<"Wrote request">>)
         /\ ToStage(IF err # Nil THEN 13 ELSE 10)
    /\ UNCHANGED cbFrame

gotFirstResponseByte ==
    /\ AtStage(10)
    /\ spans' = LogEvent(spans, ht.sp, <<"Got first response byte">>)
    /\ ToStage(11)
    /\ UNCHANGED cbFrame

\* Whether the body of the response of hop k has been closed.
BodyClosed(k) == \E b \in DOMAIN bodies : bodies[b].hop = k /\ bodies[b].closes > 0

\* The connection of hop k goes back to the idle pool once its response has
\* been read: before RoundTrip returns, or, on the transport's own goroutine,
\* once the body has been closed (by then a next hop may have started).
putIdleConn ==
    /\ attached
    /\ \E k \in DOMAIN hops :
         /\ hops[k].stage = 11
         /\ \/ k = cur /\ cpc = "rt"
            \/ BodyClosed(k) /\ cpc \in {"send", "returned"}
            \/ BodyClosed(k) /\ cpc = "rt" /\ hops[cur].stage = 0
         /\ hops' = [hops EXCEPT ![k].stage = 12]
    /\ spans' = LogEvent(spans, ht.sp, <<"Put idle conn">>)
    /\ UNCHANGED cbFrame

\* ------------------------------------ client: the response and its body

\* A response body handed out by RoundTrip for hop k; sp is the span its
\* closeTracker holds, 0 for a body that is not wrapped.
\* The body of a 101 response is an io.ReadWriteCloser. A closeTracker embeds
\* an io.ReadCloser and has the methods Read and Close only.
NewBody(k, i, status) ==
    [hop |-> k, sp |-> i, status |-> status, closes |-> 0, trace |-> << >>,
     underErr |-> Nil, err |-> Nil,
     underWritable |-> (status = 101),
     writable |-> (i = 0 /\ status = 101)]

\* RoundTrip tags the status on the root span.
RoundTripReturn_TagsRoot ==
    /\ cpc = "rt"
    /\ attached => hops[cur].stage \in {11, 12}
    /\ \E status \in ResponseStatuses :
         /\ status = 307 => redirects < MaxRedirects
         /\ IF attached
            THEN /\ spans' = SetTag(spans, ht.root, "http.status_code", Uint16(status))
                 /\ bodies' = Append(bodies, NewBody(cur, ht.sp, status))
                 /\ hops' = [hops EXCEPT ![cur].got = Outcome(status, Nil, "raw"),
                                         ![cur].ret = Outcome(status, Nil, "tracked")]
            ELSE /\ spans' = spans
                 /\ bodies' = Append(bodies, NewBody(cur, 0, status))
                 /\ hops' = [hops EXCEPT ![cur].got = Outcome(status, Nil, "raw"),
                                         ![cur].ret = Outcome(status, Nil, "raw")]
         /\ cpc' = IF status = 307 THEN "redirect" ELSE "returned"
    /\ UNCHANGED << creq, attached, ht, redirects, userCalls, srvVars >>

\* The wrapped RoundTripper returns a response: the status tag, and the body
\* wrapped in a closeTracker on tracer.sp (err is nil: no Finish here).
\* A 3xx response makes the http.Client follow the redirect.
RoundTripReturn ==
    /\ cpc = "rt"
    /\ attached => hops[cur].stage \in {11, 12}
    /\ \E status \in ResponseStatuses :
         /\ status = 307 => redirects < MaxRedirects
         /\ IF attached
            THEN /\ spans' = SetTag(spans, ht.sp, "http.status_code", Uint16(status))
                 /\ bodies' = Append(bodies, NewBody(cur, ht.sp, status))
                 /\ hops' = [hops EXCEPT ![cur].got = Outcome(status, Nil, "raw"),
                                         ![cur].ret = Outcome(status, Nil, "tracked")]
            ELSE /\ spans' = spans
                 /\ bodies' = Append(bodies, NewBody(cur, 0, status))
                 /\ hops' = [hops EXCEPT ![cur].got = Outcome(status, Nil, "raw"),
                                         ![cur].ret = Outcome(status, Nil, "raw")]
         /\ cpc' = IF status = 307 THEN "redirect" ELSE "returned"
    /\ UNCHANGED << creq, attached, ht, redirects, userCalls, srvVars >>

\* The wrapped RoundTripper returns an error: with a nil response, as
\* http.Transport does, or with a response all the same (status > 0). Without
\* a Tracer both are returned as they are. With one, resp.StatusCode
\* dereferences a nil response (a run-time panic); a non-nil response gets its
\* status tagged, and then HEAD finishes the span while any other method
\* wraps the body. The http.Client drops the response of a failed round trip.
RoundTripFail ==
    /\ cpc = "rt"
    /\ \E err \in TransportErrors, status \in {0, StatusOK} :
         LET got == Outcome(status, err, IF status = 0 THEN "none" ELSE "raw")
         IN  IF ~attached
             THEN /\ hops' = [hops EXCEPT ![cur].got = got, ![cur].ret = got]
                  /\ cpc' = "failed"
                  /\ UNCHANGED << spans, bodies >>
             ELSE IF status = 0
             THEN /\ hops' = [hops EXCEPT ![cur].got = got,
                                          ![cur].ret = Outcome(0, "nil pointer dereference", "panic")]
                  /\ cpc' = "crashed"
                  /\ UNCHANGED << spans, bodies >>
             ELSE LET s1 == SetTag(spans, ht.sp, "http.status_code", Uint16(status))
                  IN  /\ cpc' = "failed"
                      /\ IF creq.method = "HEAD"
                         THEN /\ spans' = Finish(s1, ht.sp)
                              /\ bodies' = bodies
                              /\ hops' = [hops EXCEPT ![cur].got = got, ![cur].ret = got]
                         ELSE /\ spans' = s1
                              /\ bodies' = Append(bodies, NewBody(cur, ht.sp, status))
                              /\ hops' = [hops EXCEPT ![cur].got = got,
                                              ![cur].ret = Outcome(status, err, "tracked")]
    /\ UNCHANGED << creq, attached, ht, redirects, userCalls, srvVars >>

\* Close returns nil whatever the underlying Close returned.
Close_DropsError(ss, bs, b, err) ==
    [ ss |-> IF bs[b].sp = 0 THEN ss
             ELSE Finish(LogEvent(ss, bs[b].sp, <<"Closed body">>), bs[b].sp),
      bs |-> [bs EXCEPT ![b].closes = @ + 1,
                        ![b].underErr = err,
                        ![b].err = Nil,
                        ![b].trace = @ \o (IF bs[b].sp = 0 THEN <<"ReadCloser.Close">>
                                           ELSE <<"ReadCloser.Close", "LogEvent", "Finish">>)] ]

\* Close logs on and finishes the span of the first body handed out.
Close_StaleSpan(ss, bs, b, err) ==
    [ ss |-> IF bs[b].sp = 0 THEN ss
             ELSE Finish(LogEvent(ss, bs[1].sp, <<"Closed body">>), bs[1].sp),
      bs |-> [bs EXCEPT ![b].closes = @ + 1,
                        ![b].underErr = err,
                        ![b].err = err,
                        ![b].trace = @ \o (IF bs[b].sp = 0 THEN <<"ReadCloser.Close">>
                                           ELSE <<"ReadCloser.Close", "LogEvent", "Finish">>)] ]

\* closeTracker.Close on body b: the underlying Close, the "Closed body" log
\* event, Finish; the error of the underlying Close is returned.
Close(ss, bs, b, err) ==
    [ ss |-> IF bs[b].sp = 0 THEN ss
             ELSE Finish(LogEvent(ss, bs[b].sp, <<"Closed body">>), bs[b].sp),
      bs |-> [bs EXCEPT ![b].closes = @ + 1,
                        ![b].underErr = err,
                        ![b].err = err,
                        ![b].trace = @ \o (IF bs[b].sp = 0 THEN <<"ReadCloser.Close">>
                                           ELSE <<"ReadCloser.Close", "LogEvent", "Finish">>)] ]

\* The http.Client closes the body of a redirect response (a drained body,
\* whose Close succeeds; the client looks at no error) and sends the next
\* request.
RedirectClose ==
    /\ cpc = "redirect"
    /\ \E err \in {Nil} :
         LET c == Close(spans, bodies, Len(bodies), err)
         IN  spans' = c.ss /\ bodies' = c.bs
    /\ redirects' = redirects + 1
    /\ cpc' = "send"
    /\ UNCHANGED << creq, attached, ht, hops, userCalls, srvVars >>

\* The caller closes the body of the response Do returned.
BodyClose ==
    /\ cpc = "returned"
    /\ userCalls.close < MaxUserCalls
    /\ \E err \in {Nil, "close error"} :
         LET c == Close(spans, bodies, Len(bodies), err)
         IN  spans' = c.ss /\ bodies' = c.bs
    /\ userCalls' = [userCalls EXCEPT !.close = @ + 1]
    /\ UNCHANGED << creq, attached, ht, cpc, hops, redirects, srvVars >>

\* Finish finishes the current hop span along with the root span.
TracerFinish_AllSpans ==
    /\ attached
    /\ cpc \in {"returned", "failed"}
    /\ userCalls.finish < MaxUserCalls
    /\ spans' = Finish(Finish(spans, ht.root), ht.sp)
    /\ userCalls' = [userCalls EXCEPT !.finish = @ + 1]
    /\ UNCHANGED << creq, attached, ht, cpc, hops, bodies, redirects, srvVars >>

\* (*Tracer).Finish(): h.root.Finish()
TracerFinish ==
    /\ attached
    /\ cpc \in {"returned", "failed"}
    /\ userCalls.finish < MaxUserCalls
    /\ spans' = Finish(spans, ht.root)
    /\ userCalls' = [userCalls EXCEPT !.finish = @ + 1]
    /\ UNCHANGED << creq, attached, ht, cpc, hops, bodies, redirects, srvVars >>

ClientNext ==
    \/ SendPlain
    \/ TraceRequest
    \/ RoundTripBegin
    \/ getConn
    \/ dnsStart
    \/ dnsDone
    \/ connectStart
    \/ connectDone
    \/ gotConn
    \/ wroteHeaders
    \/ wait100Continue
    \/ got100Continue
    \/ wroteRequest
    \/ gotFirstResponseByte
    \/ putIdleConn
    \/ RoundTripReturn
    \/ RoundTripFail
    \/ RedirectClose
    \/ BodyClose
    \/ TracerFinish

\* One outbound request whose caller holds a started span (the tracer's first).
ClientInit ==
    /\ SrvInit({ << >> }, Requests, StdWriters, {})
    /\ spans = << NewSpan(0, <<"toplevel">>, << >>) >>
    /\ creq \in ClientRequests
    /\ attached = FALSE
    /\ ht = NoTracker
    /\ cpc = "new"
    /\ hops = << >>
    /\ bodies = << >>
    /\ redirects = 0
    /\ userCalls = [close |-> 0, finish |-> 0]

ClientSpec == ClientInit /\ [][ClientNext]_vars

\* The same caller with a client of either kind: one whose RoundTripper is a
\* Transport, or one that sends through http.DefaultTransport directly.
ClientNextAnyTransport ==
    \/ ClientNext
    \/ DirectRoundTrip

ClientSpecAnyTransport == ClientInit /\ [][ClientNextAnyTransport]_vars

\* ------------------------------------------------------------------ claims

\* Request r has entered fn.
Entered(r) == pc[r] \notin {"absent", "idle"}

\* The span filter of the middleware instance lets request r through.
PassesFilter(r) == CallSpanFilter(opts.spanFilter, req[r])

\* The spans started on behalf of request r.
Owned(r) == { i \in DOMAIN spans : spans[i].owner = r }

\* The tag k of the server span of request r.
ServerTag(r, k) == spans[sp[r]].tags[k]

\* The deferred function of request r has called Finish.
PastFinish(r) == pc[r] \in {"exit", "done"}

\* C1: for every request the span filter lets through, exactly one server span
\* is started, and it is finished exactly once on every exit path of the
\* handler: never before the deferred function runs, never twice, and always
\* by the time fn is left (by return or by panic).
C1_SpanStartedAndFinishedOnce ==
    \A r \in Reqs :
        (Entered(r) /\ PassesFilter(r)) =>
            /\ Owned(r) = {sp[r]}
            /\ Cardinality(Owned(r)) = 1
            /\ spans[sp[r]].finished = IF PastFinish(r) THEN 1 ELSE 0

\* A handler that wrote a header and a body and then panicked; fn is left.
C1_Witness ==
    \E r \in Reqs :
        /\ pc[r] = "done" /\ sp[r] # 0
        /\ thrown[r] # Nil /\ headerCalls[r] > 0 /\ accepted[r] > 0
        /\ spans[sp[r]].finished = 1

\* C2: when the handler panics, there is exactly one finished span, tagged
\* error=true; the caller of fn sees the very value the handler panicked with,
\* and sees it only after the span has been finished.
C2_PanicReemergesAfterFinish ==
    \A r \in Reqs :
        (sp[r] # 0 /\ thrown[r] # Nil) =>
            /\ result[r] \in {"pending", thrown[r]}
            /\ result[r] # "pending" => spans[sp[r]].finished = 1
            /\ pc[r] = "done" =>
                 /\ result[r] = thrown[r]
                 /\ { i \in Owned(r) : spans[i].finished > 0 } = {sp[r]}
                 /\ spans[sp[r]].finished = 1
                 /\ ServerTag(r, "error") = <<TRUE>>

\* A handler that panicked with "panic test" right away; the caller sees it.
C2_Witness ==
    \E r \in Reqs :
        /\ pc[r] = "done" /\ sp[r] # 0 /\ steps[r] = 0
        /\ thrown[r] = "panic test" /\ result[r] = "panic test"

\* C3: a handler that returns normally without ever calling WriteHeader
\* yields a finished span tagged http.status_code = 200, body or no body.
C3_NoWriteHeaderMeans200 ==
    \A r \in Reqs :
        (sp[r] # 0 /\ PastFinish(r) /\ thrown[r] = Nil /\ headerCalls[r] = 0) =>
            ServerTag(r, "http.status_code") = <<200>>

\* A body-only handler has returned.
C3_Witness ==
    \E r \in Reqs :
        /\ pc[r] = "done" /\ sp[r] # 0 /\ thrown[r] = Nil
        /\ headerCalls[r] = 0 /\ accepted[r] > 0

\* C4: the finished span is tagged error=true exactly when the recorded
\* status is >= 500 or the handler panicked; a handler whose one WriteHeader
\* call committed 500 yields http.status_code=500 and error=true.
C4_ErrorTagIffServerErrorOrPanic ==
    \A r \in Reqs :
        (sp[r] # 0 /\ PastFinish(r)) =>
            /\ ServerTag(r, "error") \in {Absent, <<TRUE>>}
            /\ (ServerTag(r, "error") = <<TRUE>>) <=> (mt[r].status >= 500 \/ thrown[r] # Nil)
            /\ (thrown[r] = Nil /\ mt[r].status < 500) => ServerTag(r, "error") = Absent
            /\ (headerCalls[r] = 1 /\ sink[r].status = 500) =>
                 /\ ServerTag(r, "http.status_code") = <<500>>
                 /\ ServerTag(r, "error") = <<TRUE>>

\* A handler that wrote status 500 and returned.
C4_Witness ==
    \E r \in Reqs :
        /\ pc[r] = "done" /\ sp[r] # 0 /\ thrown[r] = Nil
        /\ headerCalls[r] = 1 /\ sink[r].status = 500
        /\ ServerTag(r, "error") = <<TRUE>>

\* C5: once the deferred function has run, the span carries
\* http.response_size = the bytes the sink accepted through the facade's
\* Write/WriteString calls when that number is positive, and no such tag when
\* it is zero.
C5_ResponseSizeTag ==
    \A r \in Reqs :
        (sp[r] # 0 /\ PastFinish(r)) =>
            ServerTag(r, responseSizeKey) =
                IF accepted[r] > 0 THEN <<accepted[r]>> ELSE Absent

\* Five bytes accepted; the tag says 5.
C5_Witness ==
    \E r \in Reqs :
        /\ pc[r] = "done" /\ sp[r] # 0 /\ thrown[r] = Nil
        /\ accepted[r] = 5 /\ ServerTag(r, responseSizeKey) = <<5>>

\* C6: when the span filter returns false, the handler is invoked exactly once
\* with the original writer and the original request, and nothing is traced:
\* no Extract, no span, no observer, no metricsTracker in the way.
C6_FilteredOutNoTracing ==
    \A r \in Reqs :
        (Entered(r) /\ ~PassesFilter(r)) =>
            /\ calls[r] = 1
            /\ hw[r] = OriginalWriter(under[r])
            /\ hctx[r] = 0
            /\ sp[r] = 0
            /\ Owned(r) = {}
            /\ traceCalls[r] = [extract |-> 0, observer |-> 0]
            /\ mt[r] = NewMetricsTracker

\* A filtered-out request whose handler wrote a body and returned.
C6_Witness ==
    \E r \in Reqs :
        /\ pc[r] = "done" /\ ~PassesFilter(r)
        /\ sink[r].bytes > 0 /\ result[r] = "returned"

\* C7: for every request the span filter lets through, a failed Extract does
\* not abort the request: the handler is invoked exactly once, a span is
\* started and, when fn is left, finished; the span is a child of the
\* extracted context when Extract succeeded and a root span when it failed.
C7_ExtractFailureNotFatal ==
    \A r \in Reqs :
        (Entered(r) /\ PassesFilter(r)) =>
            /\ calls[r] = 1
            /\ sp[r] \in DOMAIN spans
            /\ spans[sp[r]].refs =
                 IF Extract(req[r].inbound).err = Nil
                 THEN << Extract(req[r].inbound).ctx >>
                 ELSE << >>
            /\ pc[r] = "done" => spans[sp[r]].finished = 1

\* A request with corrupted trace headers, served to the end with a root span.
C7_Witness ==
    \E r \in Reqs :
        /\ pc[r] = "done" /\ sp[r] # 0 /\ req[r].inbound = "corrupt"
        /\ calls[r] = 1 /\ spans[sp[r]].refs = << >> /\ spans[sp[r]].finished = 1

\* C8: from the moment the handler of a traced request is invoked, the request
\* it was handed carries the span started for that request (the one tagged
\* and finished later), and the writer it was handed is the facade over the
\* request's metricsTracker.
C8_HandlerGetsSpanAndFacade ==
    \A r \in Reqs :
        (Entered(r) /\ PassesFilter(r)) =>
            /\ hctx[r] = sp[r]
            /\ hctx[r] \in Owned(r)
            /\ Tracked(hw[r])
            /\ hw[r].StringWriter = "w"
            /\ pc[r] = "done" =>
                 /\ spans[hctx[r]].finished = 1
                 /\ thrown[r] = Nil => spans[hctx[r]].tags["http.status_code"] # Absent

\* The handler of a traced request has just been invoked.
C8_Witness ==
    \E r \in Reqs :
        /\ pc[r] = "handler" /\ steps[r] = 0 /\ calls[r] = 1
        /\ sp[r] # 0 /\ hctx[r] = sp[r]

\* What the facade initialises the embedded field of capability c with: the
\* original writer asserted to that interface.
Forwarded(c) ==
    CASE c = "Hijacker"      -> "hj"
      [] c = "CloseNotifier" -> "cn"
      [] c = "Pusher"        -> "pu"
      [] c = "Flusher"       -> "fl"
      [] OTHER               -> "rf"

\* C9: for every combination of the five optional interfaces of the original
\* writer, the facade exposes an interface if and only if the original writer
\* has it (hijacking in particular), and serves it with the original writer.
C9_FacadeExposesSameCapabilities ==
    \A r \in Reqs :
        (Entered(r) /\ sp[r] # 0) =>
            /\ Exposes(hw[r]) = under[r]
            /\ ("Hijacker" \in Exposes(hw[r])) <=> ("Hijacker" \in under[r])
            /\ \A c \in Exposes(hw[r]) : hw[r][c] = Forwarded(c)

\* A writer that can only be hijacked, wrapped and handed to the handler.
C9_Witness ==
    \E r \in Reqs :
        /\ pc[r] = "handler" /\ sp[r] # 0
        /\ under[r] = {"Hijacker"} /\ Exposes(hw[r]) = {"Hijacker"}

\* The first reference of span i leads, from parent to parent, to context c.
RECURSIVE Descends(_, _)
Descends(i, c) ==
    /\ spans[i].refs # << >>
    /\ LET p == spans[i].refs[1]
       IN  \/ p = c
           \/ p.kind = "span" /\ p.id \in DOMAIN spans /\ p.id < i /\ Descends(p.id, c)

\* C10: for a traced client request, one hop span is started per RoundTrip
\* call and one root span in all: N+1 hop spans once N redirects have been
\* followed and the next response is awaited or has arrived; every hop span
\* descends from the root span's context.
C10_HopSpansPerRedirect ==
    attached =>
        /\ Len(spans) = 2 + Len(hops)
        /\ { i \in DOMAIN spans : spans[i].op = <<"HTTP">> } = {ht.root}
        /\ \A k \in DOMAIN hops :
             /\ hops[k].span = ht.root + k
             /\ spans[hops[k].span].op = <<"HTTP ", creq.method>>
             /\ Descends(hops[k].span, Context(ht.root))
        /\ cpc \in {"rt", "redirect", "returned"} => Len(hops) = redirects + 1
        /\ cpc = "send" => Len(hops) = redirects

\* One redirect followed, the final response returned and its body closed.
C10_Witness ==
    /\ attached /\ cpc = "returned" /\ redirects = 1
    /\ Len(hops) = 2 /\ userCalls.close > 0
    /\ Descends(hops[2].span, Context(ht.root))

\* n Close calls on a wrapped body, as the calls they make in turn.
RECURSIVE CloseCalls(_)
CloseCalls(n) ==
    IF n = 0 THEN << >>
    ELSE CloseCalls(n - 1) \o <<"ReadCloser.Close", "LogEvent", "Finish">>

\* How often event e was logged on span i.
Logged(i, e) == Cardinality({ k \in DOMAIN spans[i].logs : spans[i].logs[k] = e })

\* C11: closing a body wrapped by Transport calls Close on the underlying
\* body, then logs "Closed body" on the hop span, then finishes the hop span,
\* in this order, and returns the error (or nil) the underlying Close
\* returned.
C11_CloseOrderAndError ==
    \A b \in DOMAIN bodies :
        (bodies[b].sp # 0 /\ bodies[b].closes > 0) =>
            /\ bodies[b].trace = CloseCalls(bodies[b].closes)
            /\ bodies[b].err = bodies[b].underErr
            /\ Logged(bodies[b].sp, <<"Closed body">>) = bodies[b].closes
            /\ spans[bodies[b].sp].finished = bodies[b].closes

\* A wrapped body closed once, the underlying Close failing.
C11_Witness ==
    \E b \in DOMAIN bodies :
        /\ bodies[b].sp # 0 /\ bodies[b].closes = 1
        /\ bodies[b].underErr = "close error" /\ bodies[b].err = "close error"
        /\ spans[bodies[b].sp].finished = 1

\* C12: every Close call on a wrapped body finishes, before it returns, the
\* hop span that is the Tracer's current span (h.sp) when the call is made,
\* however many hops were started before.
C12_CloseFinishesCurrentHop ==
    [][ \A b \in DOMAIN bodies :
          (bodies[b].sp # 0 /\ bodies'[b].closes > bodies[b].closes) =>
              /\ bodies[b].sp = ht.sp
              /\ spans'[ht.sp].finished = spans[ht.sp].finished + 1
              /\ spans'[ht.sp].finished >= 1 ]_vars

\* After a redirect, the body of the second hop has been closed and the
\* second hop span, the current one, is finished.
C12_Witness ==
    /\ attached /\ Len(hops) = 2 /\ Len(bodies) = 2
    /\ bodies[2].closes > 0 /\ bodies[2].sp = ht.sp
    /\ spans[ht.sp].finished >= 1

\* The exchange of hop k has terminated: its response body has been closed,
\* or its round trip has ended with a transport error.
Terminated(k) == BodyClosed(k) \/ hops[k].got.err # Nil

\* C13: every hop span is finished once its exchange has terminated (body
\* closed, or round trip ended with a transport error); after the final body
\* is closed and the Tracer finished, every hop span and the root span are
\* finished.
C13_HopSpansFinishedOnTermination ==
    attached =>
        /\ \A k \in DOMAIN hops :
             Terminated(k) => spans[hops[k].span].finished >= 1
        /\ (cpc = "returned" /\ BodyClosed(cur) /\ userCalls.finish > 0) =>
             /\ \A k \in DOMAIN hops : spans[hops[k].span].finished >= 1
             /\ spans[ht.root].finished >= 1

\* C14: for a request without a Tracer in its context, RoundTrip returns the
\* response and the error of the wrapped RoundTripper as they are and does no
\* span work: no span started, tagged or finished, nothing injected, no body
\* wrapped.
C14_UntracedPassthrough ==
    ~attached =>
        /\ spans = << NewSpan(0, <<"toplevel">>, << >>) >>
        /\ ht = NoTracker
        /\ \A k \in DOMAIN hops :
             /\ hops[k].span = 0
             /\ hops[k].injected = NilCtx
             /\ hops[k].ret = hops[k].got
        /\ \A b \in DOMAIN bodies :
             /\ bodies[b].sp = 0
             /\ \A j \in DOMAIN bodies[b].trace : bodies[b].trace[j] = "ReadCloser.Close"

\* An untraced request answered with 200, its body closed by the caller.
C14_Witness ==
    /\ ~attached /\ cpc = "returned" /\ Len(hops) = 1
    /\ hops[1].got = Outcome(StatusOK, Nil, "raw") /\ hops[1].ret = hops[1].got
    /\ bodies[1].closes > 0

\* C15: when the wrapped RoundTripper returns an error for a traced request,
\* RoundTrip returns that error, whatever the method, and fails in no other
\* way.
C15_TransportErrorPropagated ==
    attached =>
        \A k \in DOMAIN hops :
            hops[k].got.err # Nil =>
                /\ hops[k].ret.err = hops[k].got.err
                /\ hops[k].ret.body # "panic"
                /\ cpc # "crashed"

\* C16: TraceRequest with a nil parent span never fails: no crash, and the
\* request can still be sent.
C16_NilParentNeverFails ==
    creq.parent = 0 => cpc # "crashed"

\* C17: with injection left at its default or enabled, the headers of every
\* traced hop carry the hop span's context and the server's Extract succeeds
\* on them; with injection disabled nothing is written and Extract fails.
C17_InjectionFollowsOption ==
    attached =>
        \A k \in DOMAIN hops :
            IF creq.injectSpanContext = "false"
            THEN /\ hops[k].injected = NilCtx
                 /\ Extract(Headers(hops[k].injected)).err # Nil
            ELSE /\ hops[k].injected = Context(hops[k].span)
                 /\ Extract(Headers(hops[k].injected)).err = Nil

\* C18: a finished hop span's http.url tag is the URL-tag function (by default
\* the full URL string) of the hop's request URL, whichever callbacks fired.
C18_UrlTagIsRequestUrl ==
    attached =>
        \A k \in DOMAIN hops :
            spans[hops[k].span].finished >= 1 =>
                spans[hops[k].span].tags["http.url"] = << AbsURLString(creq.url) >>

\* C19: every finished hop span carries peer.address, the remote address of
\* the connection the hop used.
C19_PeerAddressTagged ==
    attached =>
        \A k \in DOMAIN hops :
            spans[hops[k].span].finished >= 1 =>
                spans[hops[k].span].tags["peer.address"] = << creq.url.host >>

\* C20: Tracer.Finish finishes the root span and nothing else: every other
\* span keeps its finished count, tags and logs, and the Tracer keeps its
\* current span; Tracer.Span is the root span ("HTTP") whatever hops were
\* started.
C20_FinishOnlyRoot ==
    [][ attached =>
          /\ spans[Span(ht)].op = <<"HTTP">>
          /\ Span(ht') = Span(ht)
          /\ userCalls'.finish > userCalls.finish =>
               /\ ht' = ht
               /\ spans'[ht.root] = [spans[ht.root] EXCEPT !.finished = @ + 1]
               /\ \A i \in DOMAIN spans : i # ht.root => spans'[i] = spans[i]
               /\ hops' = hops /\ bodies' = bodies ]_vars

\* After a redirect the Tracer is finished while the body of the final
\* response is still open: the root span is finished, the current hop span not.
C20_Witness ==
    /\ attached /\ Len(hops) = 2 /\ userCalls.finish = 1 /\ userCalls.close = 0
    /\ spans[ht.root].finished = 1 /\ spans[ht.sp].finished = 0
    /\ Span(ht) = ht.root /\ ht.sp # ht.root

\* C21: a hop whose response has a status >= 500 has its span tagged
\* error=true; a hop whose response status is below 500 and whose request was
\* written without error has no error tag.
C21_ServerErrorTagsHop ==
    attached =>
        \A k \in DOMAIN hops :
            LET tag == spans[hops[k].span].tags["error"]
            IN  /\ hops[k].got.status >= 500 => tag = <<TRUE>>
                /\ (hops[k].got.status \in 1..499 /\ hops[k].stage # 13) => tag = Absent

\* C22: when the underlying response body is writable, the body handed to the
\* caller is writable too.
C22_WrapperKeepsWritable ==
    \A b \in DOMAIN bodies : bodies[b].underWritable => bodies[b].writable

\* The span observers among the options of a list, in the order given.
ObserversOf(options) ==
    { options[j].f : j \in { j \in DOMAIN options : options[j].opt = "spanObserver" } }

\* C23, as claimed: for each traced request, every span observer given as an
\* option to the middleware instance has run on the new server span before
\* the handler is invoked, and the tags it set are on the span.
C23_AllObserversRun ==
    \A r \in Reqs :
        (Entered(r) /\ PassesFilter(r)) =>
            \A options \in OptionLists :
                opts = MiddlewareFunc(options) =>
                    \A f \in ObserversOf(options) :
                        \A kv \in ObserverTags(f, req[r]) :
                            ServerTag(r, kv[1]) = kv[2]

\* C23, amended: for each traced request, the span observer in effect (the one
\* of the last MWSpanObserver option, or the no-op default) is invoked exactly
\* once on the new server span before the handler is invoked, and the tags
\* it set are on the span from then on.
C23_EffectiveObserverRuns ==
    \A r \in Reqs :
        (Entered(r) /\ PassesFilter(r)) =>
            /\ traceCalls[r].observer = 1
            /\ \A kv \in ObserverTags(opts.spanObserver, req[r]) :
                 ServerTag(r, kv[1]) = kv[2]
            /\ \A options \in OptionLists :
                 (opts = MiddlewareFunc(options) /\ ObserversOf(options) # {}) =>
                     LET at == { j \in DOMAIN options : options[j].opt = "spanObserver" }
                         last == CHOOSE j \in at : \A k \in at : k <= j
                     IN  opts.spanObserver = options[last].f

\* A middleware built with two observers has served a request: the tag of
\* the second observer is on the finished span, the tag of the first is not.
C23_Witness ==
    \E r \in Reqs :
        /\ pc[r] = "done" /\ sp[r] # 0
        /\ opts.spanObserver = "helloWorldObserver"
        /\ ServerTag(r, "hello") = <<"world">>
        /\ ServerTag(r, "http.uri") = Absent

\* C24: the Tracer's current span (h.parent, the span the next hop is made a
\* child of) is the root span or descends from it; every start makes the new
\* hop span a direct child of the span that was current before (hop 1 of the
\* root, hop k+1 of hop k), and then the current span.
C24_CurrentDescendsFromRoot ==
    attached =>
        /\ ht.parent = ht.root \/ Descends(ht.parent, Context(ht.root))
        /\ hops = << >> => ht.parent = ht.root /\ ht.sp = 0
        /\ hops # << >> => ht.parent = hops[Len(hops)].span /\ ht.sp = ht.parent
        /\ \A k \in DOMAIN hops :
             spans[hops[k].span].refs =
                 << Context(IF k = 1 THEN ht.root ELSE hops[k - 1].span) >>

\* A second hop has been started: it is the current span, a child of the first.
C24_Witness ==
    /\ attached /\ Len(hops) = 2 /\ ht.sp = hops[2].span
    /\ spans[hops[2].span].refs = << Context(hops[1].span) >>
    /\ spans[hops[1].span].refs = << Context(ht.root) >>

\* C25: the span context injected into the headers of hop k is the context of
\* hop k's own span, a span that has been started by then; not the root's and
\* not another hop's. It is in the headers when the wrapped RoundTripper gets
\* the request.
C25_InjectsOwnHopContext ==
    attached =>
        \A k \in DOMAIN hops :
            /\ hops[k].span \in DOMAIN spans
            /\ hops[k].injected = Context(hops[k].span)
            /\ hops[k].injected # Context(ht.root)
            /\ \A j \in DOMAIN hops : j # k => hops[k].injected # Context(hops[j].span)
            /\ Extract(Headers(hops[k].injected)).err = Nil

\* The second hop is with the wrapped RoundTripper, its own context injected.
C25_Witness ==
    /\ attached /\ cpc = "rt" /\ Len(hops) = 2
    /\ hops[2].injected = Context(hops[2].span) /\ hops[2].stage > 0

\* C26: once the round trip of a hop has returned a response, that hop's span
\* is tagged http.status_code with the response's status; no other span (the
\* caller's, the root, a hop without a response) carries the tag.
C26_StatusTagOnOwnHop ==
    attached =>
        /\ \A k \in DOMAIN hops :
             spans[hops[k].span].tags["http.status_code"] =
                 IF hops[k].got.status > 0 THEN << hops[k].got.status >> ELSE Absent
        /\ \A i \in DOMAIN spans :
             (\A k \in DOMAIN hops : hops[k].span # i) =>
                 spans[i].tags["http.status_code"] = Absent

\* One 307 redirect followed by a 200 response: 307 on the first hop span,
\* 200 on the final one.
C26_Witness ==
    /\ attached /\ cpc = "returned" /\ redirects = 1 /\ Len(hops) = 2
    /\ spans[hops[1].span].tags["http.status_code"] = <<307>>
    /\ spans[hops[2].span].tags["http.status_code"] = <<200>>

\* C27: when the handler panicked, the finished server span carries the
\* recorded status as http.status_code if a status had been written, and no
\* http.status_code tag if none had.
C27_NoAssumedStatusOnPanic ==
    \A r \in Reqs :
        (sp[r] # 0 /\ PastFinish(r) /\ thrown[r] # Nil) =>
            /\ headerCalls[r] = 0 => ServerTag(r, "http.status_code") = Absent
            /\ headerCalls[r] > 0 =>
                 /\ mt[r].status \in Statuses
                 /\ ServerTag(r, "http.status_code") = << mt[r].status >>

\* A handler wrote body bytes, no status, and panicked: no status tag.
C27_Witness ==
    \E r \in Reqs :
        /\ pc[r] = "done" /\ sp[r] # 0 /\ thrown[r] # Nil
        /\ headerCalls[r] = 0 /\ accepted[r] > 0
        /\ ServerTag(r, "http.status_code") = Absent

\* A step is taken by request r when it moves r's position or counts as one
\* of r's writer calls.
Acts(r) == pc'[r] # pc[r] \/ steps'[r] # steps[r]

\* C28: with requests in flight at once on one middleware instance, a request's
\* status and byte counters change only in steps of that request, every
\* span's status and response-size tags are those of its own request's
\* counters, on a span of its own, and no step changes the option set.
C28_RequestsShareNoCounters ==
    [][ /\ opts' = opts
        /\ compName' = compName
        /\ \A r \in Reqs :
             /\ ~Acts(r) =>
                  /\ mt'[r] = mt[r]
                  /\ sink'[r] = sink[r]
                  /\ accepted'[r] = accepted[r]
                  /\ headerCalls'[r] = headerCalls[r]
                  /\ sp'[r] = sp[r]
                  /\ sp[r] # 0 => spans'[sp[r]] = spans[sp[r]]
             /\ (sp[r] # 0 /\ PastFinish(r)) =>
                  /\ ServerTag(r, "http.status_code") =
                        IF mt[r].status > 0 THEN << mt[r].status >> ELSE Absent
                  /\ headerCalls[r] = 0 =>
                        ServerTag(r, "http.status_code") =
                            IF thrown[r] = Nil THEN <<200>> ELSE Absent
                  /\ ServerTag(r, responseSizeKey) =
                        IF accepted[r] > 0 THEN << accepted[r] >> ELSE Absent
                  /\ \A q \in Reqs \ {r} : sp[q] # sp[r] ]_vars

\* Two requests served side by side, the second one started first: 200 and
\* two bytes on one span, 500 and no body on the other.
C28_Witness ==
    /\ pc[1] = "done" /\ pc[2] = "done" /\ sp[2] = 1 /\ sp[1] = 2
    /\ ServerTag(1, "http.status_code") = <<200>>
    /\ ServerTag(1, responseSizeKey) = <<2>>
    /\ ServerTag(2, "http.status_code") = <<500>>
    /\ ServerTag(2, responseSizeKey) = Absent

\* The name of the event a log entry carries (an entry with a payload is a
\* pair of name and payload).
EventName(e) == e[1]

\* The event each connection callback is named for, by the position a hop is
\* in once the callback has run.
CallbackEvent ==
    1  :> "Get conn"          @@ 2  :> "DNS start"
 @@ 3  :> "DNS done"          @@ 4  :> "Connect start"
 @@ 5  :> "Connect done"      @@ 6  :> "Got conn"
 @@ 7  :> "Wrote headers"     @@ 8  :> "Wait 100 continue"
 @@ 9  :> "Got 100 continue"  @@ 10 :> "Wrote request"
 @@ 11 :> "Got first response byte"
 @@ 12 :> "Put idle conn"     @@ 13 :> "Wrote request"

\* C29: each connection-event callback appends exactly one log event to the
\* tracker's current hop span and to no other span, and the event is named
\* for the callback, so connect-start and connect-done events differ in name;
\* wroteRequest tags error=true exactly when the write failed.
C29_CallbackLogsOwnEvent ==
    [][ \A k \in DOMAIN hops :
          (k \in DOMAIN hops' /\ hops'[k].stage # hops[k].stage) =>
             LET n == hops'[k].stage
                 i == ht.sp
             IN  /\ Len(spans'[i].logs) = Len(spans[i].logs) + 1
                 /\ SubSeq(spans'[i].logs, 1, Len(spans[i].logs)) = spans[i].logs
                 /\ EventName(spans'[i].logs[Len(spans'[i].logs)]) = CallbackEvent[n]
                 /\ \A j \in DOMAIN spans : j # i => spans'[j] = spans[j]
                 /\ n = 13 => spans'[i].tags["error"] = <<TRUE>>
                 /\ n = 10 => spans'[i].tags["error"] = spans[i].tags["error"] ]_vars

\* The spans started for the hops of the traced request.
HopSpans == { hops[k].span : k \in DOMAIN hops } \ {0}

\* C30: however the connection callbacks, the starts of hops and the Close
\* calls on response bodies interleave, no tag and no log event is written to
\* a hop span that has been finished.
C30_NoWriteAfterFinish ==
    [][ \A i \in HopSpans :
          spans[i].finished > 0 =>
             /\ spans'[i].tags = spans[i].tags
             /\ spans'[i].logs = spans[i].logs ]_vars

\* A connection callback runs in a step: the position of some hop advances.
CallbackRuns == \E k \in DOMAIN hops : k \in DOMAIN hops' /\ hops'[k].stage # hops[k].stage

\* C31: for a request produced by TraceRequest, whichever transport it is
\* sent through, no connection callback runs while the tracker's hop span is
\* unset.
C31_StartPrecedesCallbacks ==
    [][ CallbackRuns => ht.sp # 0 ]_vars

\* C31, amended: for a request produced by TraceRequest and sent through a
\* Transport, no connection callback runs while the tracker's hop span is
\* unset: the span is the one started for the hop the transport is serving.
C31_StartPrecedesCallbacksInTransport ==
    [][ (CallbackRuns /\ cpc = "rt") => (ht.sp # 0 /\ ht.sp = hops[cur].span) ]_vars

\* GetConn has run for a hop sent through Transport.
C31_Witness ==
    /\ attached /\ cpc = "rt" /\ hops[cur].stage = 1
    /\ ht.sp = hops[cur].span /\ Logged(ht.sp, <<"Get conn">>) = 1

\* The spans the client side started: the root span and the hop spans.
ClientSpans == IF attached THEN HopSpans \cup {ht.root} ELSE {}

\* C32: whatever RoundTrip calls, Close calls on response bodies (repeated
\* ones included) and Tracer.Finish calls are made, the root span and every
\* hop span are finished at most once.
C32_SpansFinishedAtMostOnce ==
    \A i \in ClientSpans : spans[i].finished <= 1

\* The facade offers the handler no way to reach the sink other than
\* WriteHeader, Write and WriteString.
WritesOnly(r) == Exposes(hw[r]) \cap {"Flusher", "ReaderFrom"} = {}

\* C33: after a handler that made only WriteHeader, Write and WriteString
\* calls has returned normally, the status tagged on the span is the status
\* the underlying writer committed for the response: the argument of the
\* first WriteHeader call, or 200 when a body write came before any
\* WriteHeader call.
C33_TaggedStatusIsCommittedStatus ==
    \A r \in Reqs :
        (sp[r] # 0 /\ PastFinish(r) /\ thrown[r] = Nil /\ WritesOnly(r)
           /\ sink[r].status # 0) =>
            ServerTag(r, "http.status_code") = <<sink[r].status>>

\* C34: through whatever write path the facade exposes (Write, WriteString,
\* ReadFrom), the byte count of the metricsTracker is the number of bytes the
\* underlying writer reported as written, partial and failed writes included,
\* and it never decreases.
C34_SizeCountsEveryWritePath ==
    [][ \A r \in Reqs :
          (sp[r] # 0 /\ sp'[r] = sp[r]) =>
             /\ mt'[r].size >= mt[r].size
             /\ mt'[r].size = sink'[r].bytes ]_vars

====
